---------------------------- MODULE Spec2Model ----------------------------
(***************************************************************************)
(* Matrix exponential by scaled Pade approximation (src/linalg/exp.rs).    *)
(*                                                                         *)
(* Matrices are sequences of rows of integers.  Everything the code        *)
(* computes exactly on such matrices (products, transposes, absolute       *)
(* values, column sums, the zero test) is computed here the same way.      *)
(* Floating-point magnitudes (the size of a non-zero norm root relative to *)
(* the thresholds, the value of ell when its estimate is non-zero, and     *)
(* whether LU meets a zero pivot) are drawn from small sets.               *)
(***************************************************************************)
EXTENDS Integers, Sequences, FiniteSets, TLC

VARIABLES h, ret, pc, self, mag, ellv, loc, s, uv, x, sq, cnt, nm, nres

vars == <<h, ret, pc, self, mag, ellv, loc, s, uv, x, sq, cnt, nm, nres>>

(***************************************************************************)
(* Bounds                                                                  *)
(***************************************************************************)
MaxDim == 2

MaxShift == 1

MaxLevel == 6

MaxEll == 1

NormEntry == 1

(***************************************************************************)
(* Option<T>                                                               *)
(***************************************************************************)
None == <<>>

Some(v) == <<v>>

is_none(o) == Len(o) = 0

is_some(o) == Len(o) = 1

unwrap(o) == o[1]

(***************************************************************************)
(* Dense square matrices                                                   *)
(***************************************************************************)
Abs(v) == IF v < 0 THEN -v ELSE v

Max(p, q) == IF q > p THEN q ELSE p

Min(p, q) == IF q < p THEN q ELSE p

Zero(n) == [i \in 1..n |-> [j \in 1..n |-> 0]]

identity_generic(n) == [i \in 1..n |-> [j \in 1..n |-> IF i = j THEN 1 ELSE 0]]

(* Rows and vectors are built entry by entry, as the arithmetic fills them. *)
RECURSIVE Dot(_, _, _, _, _)
Dot(p, q, i, j, k) ==
    IF k = 0 THEN 0 ELSE Dot(p, q, i, j, k - 1) + p[i][k] * q[k][j]

RECURSIVE MulRow(_, _, _, _)
MulRow(p, q, i, j) ==
    IF j = 0 THEN <<>> ELSE Append(MulRow(p, q, i, j - 1), Dot(p, q, i, j, Len(p)))

RECURSIVE MulRows(_, _, _)
MulRows(p, q, i) ==
    IF i = 0 THEN <<>> ELSE Append(MulRows(p, q, i - 1), MulRow(p, q, i, Len(p)))

MatMul(p, q) == MulRows(p, q, Len(p))

RECURSIVE TransposeRow(_, _, _)
TransposeRow(m, i, j) ==
    IF j = 0 THEN <<>> ELSE Append(TransposeRow(m, i, j - 1), m[j][i])

RECURSIVE TransposeRows(_, _)
TransposeRows(m, i) ==
    IF i = 0 THEN <<>> ELSE Append(TransposeRows(m, i - 1), TransposeRow(m, i, Len(m)))

transpose(m) == TransposeRows(m, Len(m))

RECURSIVE AbsRow(_, _, _)
AbsRow(m, i, j) ==
    IF j = 0 THEN <<>> ELSE Append(AbsRow(m, i, j - 1), Abs(m[i][j]))

RECURSIVE AbsRows(_, _)
AbsRows(m, i) ==
    IF i = 0 THEN <<>> ELSE Append(AbsRows(m, i - 1), AbsRow(m, i, Len(m)))

map_abs(m) == AbsRows(m, Len(m))

RECURSIVE DotVec(_, _, _, _)
DotVec(m, v, i, k) ==
    IF k = 0 THEN 0 ELSE DotVec(m, v, i, k - 1) + m[i][k] * v[k]

RECURSIVE MatVecTo(_, _, _)
MatVecTo(m, v, i) ==
    IF i = 0 THEN <<>> ELSE Append(MatVecTo(m, v, i - 1), DotVec(m, v, i, Len(m)))

MatVec(m, v) == MatVecTo(m, v, Len(m))

RECURSIVE VecMax(_, _)
VecMax(v, k) ==
    IF k = 1 THEN v[1] ELSE Max(VecMax(v, k - 1), v[k])

(***************************************************************************)
(* one_norm: for i in 0..ncols { max = max.max(fold(0, |a, b| a + |b|)) }  *)
(***************************************************************************)
RECURSIVE ColFold(_, _, _)
ColFold(m, col, row) ==
    IF row = 0 THEN 0 ELSE ColFold(m, col, row - 1) + Abs(m[row][col])

RECURSIVE one_norm_loop(_, _)
one_norm_loop(m, i) ==
    IF i = 0 THEN 0 ELSE Max(one_norm_loop(m, i - 1), ColFold(m, i, Len(m)))

(* one_norm taking the largest row sum instead of the largest column sum. *)
one_norm_rows(m) == one_norm_loop(transpose(m), Len(m))

one_norm(m) == one_norm_loop(m, Len(m))

(***************************************************************************)
(* onenorm_matrix_power_nonm: v = ones; p times v = a^T * v; v.max()       *)
(***************************************************************************)
RECURSIVE PowerIter(_, _, _)
PowerIter(m, v, p) ==
    IF p = 0 THEN v
    ELSE LET w == MatVec(m, v) IN
         IF Len(w) = Len(v) THEN PowerIter(m, w, p - 1) ELSE <<>>

onenorm_matrix_power_nonm(a, p) ==
    LET n == Len(a)
        v == PowerIter(transpose(a), [i \in 1..n |-> 1], p)
    IN  VecMax(v, n)

(***************************************************************************)
(* A norm root one_norm(M).powf(1/k) is kept exactly as the pair (n, k).   *)
(***************************************************************************)
powf(n, k) == [n |-> n, k |-> k]

(***************************************************************************)
(* ExpmPadeHelper.  The field panicked is a ghost: it records that an      *)
(* unwrap() met None; a panicked helper does nothing more.                 *)
(***************************************************************************)
new(a, use_exact_norm) ==
    [ use_exact_norm |-> use_exact_norm,
      ident |-> identity_generic(Len(a)),
      a |-> a,
      a2 |-> None, a4 |-> None, a6 |-> None, a8 |-> None, a10 |-> None,
      d4_exact |-> None, d6_exact |-> None, d8_exact |-> None, d10_exact |-> None,
      d4_approx |-> None, d6_approx |-> None, d8_approx |-> None, d10_approx |-> None,
      panicked |-> FALSE ]

Panic(hh) == [hh EXCEPT !.panicked = TRUE]

(* self.aK = Some(x * y) with x = self.aI.unwrap(), y = self.aJ.unwrap() *)
store_product(h1, slot, fx, fy) ==
    IF h1.panicked \/ is_none(h1[fx]) \/ is_none(h1[fy]) THEN Panic(h1)
    ELSE [h1 EXCEPT ![slot] = Some(MatMul(unwrap(h1[fx]), unwrap(h1[fy])))]

calc_a2(hh) ==
    IF hh.panicked THEN hh
    ELSE IF is_none(hh.a2) THEN [hh EXCEPT !.a2 = Some(MatMul(hh.a, hh.a))]
    ELSE hh

calc_a4(hh) ==
    IF hh.panicked THEN hh
    ELSE IF is_none(hh.a4) THEN store_product(calc_a2(hh), "a4", "a2", "a2")
    ELSE hh

calc_a6(hh) ==
    IF hh.panicked THEN hh
    ELSE IF is_none(hh.a6) THEN store_product(calc_a4(calc_a2(hh)), "a6", "a4", "a2")
    ELSE hh

(* calc_a8 without its call of calc_a6. *)
calc_a8_without_a6(hh) ==
    IF hh.panicked THEN hh
    ELSE IF is_none(hh.a8) THEN store_product(calc_a2(hh), "a8", "a6", "a2")
    ELSE hh

calc_a8(hh) ==
    IF hh.panicked THEN hh
    ELSE IF is_none(hh.a8) THEN store_product(calc_a6(calc_a2(hh)), "a8", "a6", "a2")
    ELSE hh

calc_a10(hh) ==
    IF hh.panicked THEN hh
    ELSE IF is_none(hh.a10) THEN store_product(calc_a6(calc_a4(hh)), "a10", "a6", "a4")
    ELSE hh

(* Every accessor returns [h |-> helper afterwards, v |-> Option of the     *)
(* returned value (None when the call panicked)].                          *)
Ret(hh, v) == [h |-> hh, v |-> v]

(* self.dK_slot = Some(one_norm(self.aK.unwrap()).powf(1/k)); the stored   *)
(* value is returned.                                                      *)
store_root(h1, slot, fx, k) ==
    IF h1.panicked \/ is_none(h1[fx]) THEN Ret(Panic(h1), None)
    ELSE Ret([h1 EXCEPT ![slot] = Some(powf(one_norm(unwrap(h1[fx])), k))],
             Some(powf(one_norm(unwrap(h1[fx])), k)))

(* d4_tight that drops the approximate value once the exact one is known. *)
d4_tight_invalidating(hh) ==
    IF hh.panicked THEN Ret(hh, None)
    ELSE IF is_none(hh.d4_exact)
    THEN store_root([calc_a4(hh) EXCEPT !.d4_approx = None], "d4_exact", "a4", 4)
    ELSE Ret([hh EXCEPT !.d4_approx = None], hh.d4_exact)

d4_tight(hh) ==
    IF hh.panicked THEN Ret(hh, None)
    ELSE IF is_none(hh.d4_exact) THEN store_root(calc_a4(hh), "d4_exact", "a4", 4)
    ELSE Ret(hh, hh.d4_exact)

d6_tight(hh) ==
    IF hh.panicked THEN Ret(hh, None)
    ELSE IF is_none(hh.d6_exact) THEN store_root(calc_a6(hh), "d6_exact", "a6", 6)
    ELSE Ret(hh, hh.d6_exact)

d8_tight(hh) ==
    IF hh.panicked THEN Ret(hh, None)
    ELSE IF is_none(hh.d8_exact) THEN store_root(calc_a8(hh), "d8_exact", "a8", 8)
    ELSE Ret(hh, hh.d8_exact)

d10_tight(hh) ==
    IF hh.panicked THEN Ret(hh, None)
    ELSE IF is_none(hh.d10_exact) THEN store_root(calc_a10(hh), "d10_exact", "a10", 10)
    ELSE Ret(hh, hh.d10_exact)

d4_loose(hh) ==
    IF hh.panicked THEN Ret(hh, None)
    ELSE IF hh.use_exact_norm THEN d4_tight(hh)
    ELSE IF is_some(hh.d4_exact) THEN Ret(hh, hh.d4_exact)
    ELSE IF is_none(hh.d4_approx) THEN store_root(calc_a4(hh), "d4_approx", "a4", 4)
    ELSE Ret(hh, hh.d4_approx)

(* d6_loose whose approximate branch takes the fourth root. *)
d6_loose_fourth_root(hh) ==
    IF hh.panicked THEN Ret(hh, None)
    ELSE IF hh.use_exact_norm THEN d6_tight(hh)
    ELSE IF is_some(hh.d6_exact) THEN Ret(hh, hh.d6_exact)
    ELSE IF is_none(hh.d6_approx) THEN store_root(calc_a6(hh), "d6_approx", "a6", 4)
    ELSE Ret(hh, hh.d6_approx)

d6_loose(hh) ==
    IF hh.panicked THEN Ret(hh, None)
    ELSE IF hh.use_exact_norm THEN d6_tight(hh)
    ELSE IF is_some(hh.d6_exact) THEN Ret(hh, hh.d6_exact)
    ELSE IF is_none(hh.d6_approx) THEN store_root(calc_a6(hh), "d6_approx", "a6", 6)
    ELSE Ret(hh, hh.d6_approx)

d8_loose(hh) ==
    IF hh.panicked THEN Ret(hh, None)
    ELSE IF hh.use_exact_norm THEN d8_tight(hh)
    ELSE IF is_some(hh.d8_exact) THEN Ret(hh, hh.d8_exact)
    ELSE IF is_none(hh.d8_approx) THEN store_root(calc_a8(hh), "d8_approx", "a8", 8)
    ELSE Ret(hh, hh.d8_approx)

d10_loose(hh) ==
    IF hh.panicked THEN Ret(hh, None)
    ELSE IF hh.use_exact_norm THEN d10_tight(hh)
    ELSE IF is_some(hh.d10_exact) THEN Ret(hh, hh.d10_exact)
    ELSE IF is_none(hh.d10_approx) THEN store_root(calc_a10(hh), "d10_approx", "a10", 10)
    ELSE Ret(hh, hh.d10_approx)

(***************************************************************************)
(* Pade coefficient tables.  A coefficient c is written <<hi, lo>> with    *)
(* c = hi * 10^9 + lo, so that the degree 9 and 13 tables keep every digit.*)
(***************************************************************************)
b3 == << <<0, 120>>, <<0, 60>>, <<0, 12>>, <<0, 1>> >>

b5 == << <<0, 30240>>, <<0, 15120>>, <<0, 3360>>, <<0, 420>>, <<0, 30>>, <<0, 1>> >>

b7 == << <<0, 17297280>>, <<0, 8648640>>, <<0, 1995840>>, <<0, 277200>>,
         <<0, 25200>>, <<0, 1512>>, <<0, 56>>, <<0, 1>> >>

b9 == << <<17, 643225600>>, <<8, 821612800>>, <<2, 75673600>>, <<0, 302702400>>,
         <<0, 30270240>>, <<0, 2162160>>, <<0, 110880>>, <<0, 3960>>,
         <<0, 90>>, <<0, 1>> >>

b13 == << <<64764752, 532480000>>, <<32382376, 266240000>>, <<7771770, 303897600>>,
          <<1187353, 796428800>>, <<129060, 195264000>>, <<10559, 470521600>>,
          <<670, 442572800>>, <<33, 522128640>>, <<1, 323241920>>, <<0, 40840800>>,
          <<0, 960960>>, <<0, 16380>>, <<0, 182>>, <<0, 1>> >>

(***************************************************************************)
(* Matrix expressions of the builders.  A scaled matrix [m, sh] stands for *)
(* m * 2^(-sh).  A linear combination is the sequence of its terms, in the *)
(* order the code adds them; a term [t, b, c, sh, m] stands for            *)
(* c * 2^(-sh) * m, where c is entry b (0-based) of the table of degree t. *)
(***************************************************************************)
Scaled(m, sh) == [m |-> m, sh |-> sh]

Times(sm, t, tab, j) ==
    << [t |-> t, b |-> j, c |-> tab[j + 1], sh |-> sm.sh, m |-> sm.m] >>

RECURSIVE LeftMulTo(_, _, _)
LeftMulTo(sm, lin, n) ==
    IF n = 0 THEN <<>>
    ELSE Append(LeftMulTo(sm, lin, n - 1),
                [lin[n] EXCEPT !.m = MatMul(sm.m, @), !.sh = sm.sh + @])

LeftMul(sm, lin) == LeftMulTo(sm, lin, Len(lin))

(* The operands of the builders: self.a, self.ident and a cached power,   *)
(* each with the scaling the builder applies to it.                        *)
A(h1, sh) == Scaled(h1.a, sh)

I(h1) == Scaled(h1.ident, 0)

P(h1, slot, sh) == Scaled(unwrap(h1[slot]), sh)

Missing(h1, slots) == h1.panicked \/ \E f \in slots : is_none(h1[f])

(* pade3 with the coefficients b[2] and b[3] exchanged. *)
pade3_uv_exchanged(h1) ==
    IF Missing(h1, {"a2"}) THEN Ret(Panic(h1), None)
    ELSE Ret(h1, Some(<<
        LeftMul(A(h1, 0), Times(P(h1, "a2", 0), 3, b3, 2) \o Times(I(h1), 3, b3, 1)),
        Times(P(h1, "a2", 0), 3, b3, 3) \o Times(I(h1), 3, b3, 0) >>))

pade3_uv(h1) ==
    IF Missing(h1, {"a2"}) THEN Ret(Panic(h1), None)
    ELSE Ret(h1, Some(<<
        LeftMul(A(h1, 0), Times(P(h1, "a2", 0), 3, b3, 3) \o Times(I(h1), 3, b3, 1)),
        Times(P(h1, "a2", 0), 3, b3, 2) \o Times(I(h1), 3, b3, 0) >>))

pade3(hh) == IF hh.panicked THEN Ret(hh, None) ELSE pade3_uv(calc_a2(hh))

pade5_uv(h1) ==
    IF Missing(h1, {"a4", "a2"}) THEN Ret(Panic(h1), None)
    ELSE Ret(h1, Some(<<
        LeftMul(A(h1, 0), Times(P(h1, "a4", 0), 5, b5, 5) \o Times(P(h1, "a2", 0), 5, b5, 3)
                          \o Times(I(h1), 5, b5, 1)),
        Times(P(h1, "a4", 0), 5, b5, 4) \o Times(P(h1, "a2", 0), 5, b5, 2)
        \o Times(I(h1), 5, b5, 0) >>))

pade5(hh) == IF hh.panicked THEN Ret(hh, None) ELSE pade5_uv(calc_a6(calc_a2(hh)))

pade7_uv(h1) ==
    IF Missing(h1, {"a6", "a4", "a2"}) THEN Ret(Panic(h1), None)
    ELSE Ret(h1, Some(<<
        LeftMul(A(h1, 0), Times(P(h1, "a6", 0), 7, b7, 7) \o Times(P(h1, "a4", 0), 7, b7, 5)
                          \o Times(P(h1, "a2", 0), 7, b7, 3) \o Times(I(h1), 7, b7, 1)),
        Times(P(h1, "a6", 0), 7, b7, 6) \o Times(P(h1, "a4", 0), 7, b7, 4)
        \o Times(P(h1, "a2", 0), 7, b7, 2) \o Times(I(h1), 7, b7, 0) >>))

pade7(hh) ==
    IF hh.panicked THEN Ret(hh, None) ELSE pade7_uv(calc_a6(calc_a4(calc_a2(hh))))

pade9_uv(h1) ==
    IF Missing(h1, {"a8", "a6", "a4", "a2"}) THEN Ret(Panic(h1), None)
    ELSE Ret(h1, Some(<<
        LeftMul(A(h1, 0), Times(P(h1, "a8", 0), 9, b9, 9) \o Times(P(h1, "a6", 0), 9, b9, 7)
                          \o Times(P(h1, "a4", 0), 9, b9, 5) \o Times(P(h1, "a2", 0), 9, b9, 3)
                          \o Times(I(h1), 9, b9, 1)),
        Times(P(h1, "a8", 0), 9, b9, 8) \o Times(P(h1, "a6", 0), 9, b9, 6)
        \o Times(P(h1, "a4", 0), 9, b9, 4) \o Times(P(h1, "a2", 0), 9, b9, 2)
        \o Times(I(h1), 9, b9, 0) >>))

pade9(hh) ==
    IF hh.panicked THEN Ret(hh, None)
    ELSE pade9_uv(calc_a8(calc_a6(calc_a4(calc_a2(hh)))))

(* mb = a * 2^(-s), mb2 = a2 * 2^(-2s), mb4 = a4 * 2^(-4s), mb6 = a6 * 2^(-6s) *)
pade13_u2(h1, sc) ==
    LeftMul(P(h1, "a6", 6 * sc),
            Times(P(h1, "a6", 6 * sc), 13, b13, 13) \o Times(P(h1, "a4", 4 * sc), 13, b13, 11)
            \o Times(P(h1, "a2", 2 * sc), 13, b13, 9))

pade13_v2(h1, sc) ==
    LeftMul(P(h1, "a6", 6 * sc),
            Times(P(h1, "a6", 6 * sc), 13, b13, 12) \o Times(P(h1, "a4", 4 * sc), 13, b13, 10)
            \o Times(P(h1, "a2", 2 * sc), 13, b13, 8))

pade13_uv(h1, sc) ==
    IF Missing(h1, {"a2", "a4", "a6"}) THEN Ret(Panic(h1), None)
    ELSE Ret(h1, Some(<<
        LeftMul(A(h1, sc),
                pade13_u2(h1, sc) \o Times(P(h1, "a6", 6 * sc), 13, b13, 7)
                \o Times(P(h1, "a4", 4 * sc), 13, b13, 5)
                \o Times(P(h1, "a2", 2 * sc), 13, b13, 3) \o Times(I(h1), 13, b13, 1)),
        pade13_v2(h1, sc) \o Times(P(h1, "a6", 6 * sc), 13, b13, 6)
        \o Times(P(h1, "a4", 4 * sc), 13, b13, 4)
        \o Times(P(h1, "a2", 2 * sc), 13, b13, 2) \o Times(I(h1), 13, b13, 0) >>))

pade13_scaled(hh, sc) ==
    IF hh.panicked THEN Ret(hh, None)
    ELSE pade13_uv(calc_a6(calc_a4(calc_a2(hh))), sc)

(***************************************************************************)
(* Inputs: the matrices p*I + q*N of dimension 1..MaxDim (N the upper      *)
(* shift), with p, q in -1..1: zero, identity, nilpotent, Jordan blocks.   *)
(***************************************************************************)
Entries == {-1, 0, 1}

Toeplitz(n, p, q) ==
    [i \in 1..n |-> [j \in 1..n |-> IF i = j THEN p ELSE IF j = i + 1 THEN q ELSE 0]]

Inputs == {Toeplitz(n, p, q) : n \in 1..MaxDim, p \in Entries, q \in Entries}

NoRet == [op |-> "none", arg |-> 0, v |-> None]

NoMag == [k \in {4, 6, 8, 10} |-> -1]

NoEll == [m \in {3, 5, 7, 9, 13} |-> -1]

NoLoc ==
    [eta_1 |-> -1, eta_2 |-> -1, eta_3 |-> -1, eta_4 |-> -1, eta_5 |-> -1,
     deg |-> 0, lu |-> "not run"]

Idle ==
    /\ pc = "idle" /\ self = <<>> /\ mag = NoMag /\ ellv = NoEll /\ loc = NoLoc
    /\ s = 0 /\ uv = None /\ x = None /\ sq = 0 /\ cnt = [pairs |-> 0, solves |-> 0]

NormIdle == nm = <<>> /\ nres = None

(***************************************************************************)
(* Spec: any sequence of helper operations on one ExpmPadeHelper.          *)
(***************************************************************************)
Init ==
    /\ \E a \in Inputs, e \in BOOLEAN : h = new(a, e)
    /\ ret = NoRet
    /\ Idle /\ NormIdle

Rest == UNCHANGED <<pc, self, mag, ellv, loc, s, uv, x, sq, cnt, nm, nres>>

Step(op, hh) == h' = hh /\ ret' = [op |-> op, arg |-> 0, v |-> None] /\ Rest

Call(op, r) == h' = r.h /\ ret' = [op |-> op, arg |-> 0, v |-> r.v] /\ Rest

Call_calc_a2 == Step("calc_a2", calc_a2(h))

Call_calc_a4 == Step("calc_a4", calc_a4(h))

Call_calc_a6 == Step("calc_a6", calc_a6(h))

Call_calc_a8 == Step("calc_a8", calc_a8(h))

Call_calc_a10 == Step("calc_a10", calc_a10(h))

Call_d4_tight == Call("d4_tight", d4_tight(h))

Call_d6_tight == Call("d6_tight", d6_tight(h))

Call_d8_tight == Call("d8_tight", d8_tight(h))

Call_d10_tight == Call("d10_tight", d10_tight(h))

Call_d4_loose == Call("d4_loose", d4_loose(h))

Call_d6_loose == Call("d6_loose", d6_loose(h))

Call_d8_loose == Call("d8_loose", d8_loose(h))

Call_d10_loose == Call("d10_loose", d10_loose(h))

Call_pade3 == Call("pade3", pade3(h))

Call_pade5 == Call("pade5", pade5(h))

Call_pade7 == Call("pade7", pade7(h))

Call_pade9 == Call("pade9", pade9(h))

Call_pade13_scaled ==
    \E sc \in 0..MaxShift :
        \E r \in {pade13_scaled(h, sc)} :
            /\ h' = r.h
            /\ ret' = [op |-> "pade13_scaled", arg |-> sc, v |-> r.v]
            /\ Rest

Next ==
    \/ Call_calc_a2 \/ Call_calc_a4 \/ Call_calc_a6 \/ Call_calc_a8 \/ Call_calc_a10
    \/ Call_d4_tight \/ Call_d6_tight \/ Call_d8_tight \/ Call_d10_tight
    \/ Call_d4_loose \/ Call_d6_loose \/ Call_d8_loose \/ Call_d10_loose
    \/ Call_pade3 \/ Call_pade5 \/ Call_pade7 \/ Call_pade9 \/ Call_pade13_scaled

Spec == Init /\ [][Next]_vars

(***************************************************************************)
(* Floating-point magnitudes.  A non-negative real is kept as a level:     *)
(*   0: exactly 0          1: (0, theta_3)        2: [theta_3, theta_5)    *)
(*   3: [theta_5, theta_7) 4: [theta_7, theta_9)  5: [theta_9, theta_13]   *)
(*   5 + j: (theta_13 * 2^(j-1), theta_13 * 2^j]                           *)
(* so that v < theta is a comparison of levels, max and min are those of   *)
(* the levels, and ceil(log2(v / theta_13)) is level(v) - theta_13.        *)
(* A norm root n^(1/k) has level 0 exactly when n = 0; otherwise its level *)
(* is an input.                                                            *)
(***************************************************************************)
theta_3 == 2

theta_5 == 3

theta_7 == 4

theta_9 == 5

theta_13 == 5

Levels == 1..MaxLevel

level(d, l) == IF d.n = 0 THEN 0 ELSE l

log2_ceil(eta, theta) == eta - theta

(***************************************************************************)
(* ell(a, m): 0 when the estimate of | |a|^(2m+1) | is zero; otherwise the *)
(* float value max(0, ceil(log2(alpha / u) / (2m))), taken as the input o. *)
(***************************************************************************)
(* ell without the early return on a zero estimate. *)
ell_without_zero_test(a, m, o) == o

ell(a, m, o) ==
    LET a_abs == map_abs(a)
        a_abs_onenorm == onenorm_matrix_power_nonm(a_abs, 2 * m + 1)
    IN  IF a_abs_onenorm = 0 THEN 0 ELSE o

(***************************************************************************)
(* solve_p_q: P = U + V, Q = V - U, Q.lu().solve(P).unwrap().              *)
(* A sum or difference is kept as [plus, minus]; terms on a zero matrix    *)
(* vanish.  LU cannot meet a zero pivot when Q is upper triangular with    *)
(* its diagonal coming only from the term b[0]*I; elsewhere the outcome of *)
(* the factorisation is the input lu_fails.  The solution is known exactly *)
(* when P and Q have the same non-zero terms (X = I); otherwise it is kept *)
(* as [known |-> FALSE].  sq counts the squarings applied to X.            *)
(***************************************************************************)
IsNonZero(t) == t.m # Zero(Len(t.m))

NonZero(lin) == SelectSeq(lin, IsNonZero)

UpperTriangular(m) == \A i \in 1..Len(m), j \in 1..Len(m) : j < i => m[i][j] = 0

ZeroDiagonal(m) == \A i \in 1..Len(m) : m[i][i] = 0

CertainlyRegular(q) ==
    LET qp == NonZero(q.plus)
        qm == NonZero(q.minus)
    IN  /\ \A n \in 1..Len(qp) : UpperTriangular(qp[n].m)
        /\ \A n \in 1..Len(qm) : UpperTriangular(qm[n].m) /\ ZeroDiagonal(qm[n].m)
        /\ Cardinality({n \in 1..Len(qp) : ~ZeroDiagonal(qp[n].m)}) = 1
        /\ \A n \in 1..Len(qp) :
              ~ZeroDiagonal(qp[n].m) => qp[n].m = identity_generic(Len(qp[n].m))

lu_solve(q, p, lu_fails) ==
    IF ~CertainlyRegular(q) /\ lu_fails THEN None
    ELSE IF NonZero(q.minus) = <<>> /\ NonZero(p.minus) = <<>>
            /\ NonZero(q.plus) = NonZero(p.plus)
    THEN Some([known |-> TRUE, m |-> identity_generic(Len(q.plus[1].m)), sq |-> 0])
    ELSE Some([known |-> FALSE, m |-> <<>>, sq |-> 0])

solve_p_q(u, v, lu_fails) ==
    LET p == [plus |-> u \o v, minus |-> <<>>]
        q == [plus |-> v, minus |-> u]
    IN  lu_solve(q, p, lu_fails)

square(xx) ==
    [xx EXCEPT !.m = IF xx.known THEN MatMul(@, @) ELSE @, !.sq = @ + 1]

(* self.map(|v| v.exp()) on a 1x1 matrix: e^0 = 1 is exact. *)
map_exp(m) ==
    IF m[1][1] = 0 THEN [known |-> TRUE, m |-> <<<<1>>>>, sq |-> 0]
    ELSE [known |-> FALSE, m |-> <<>>, sq |-> 0]

(***************************************************************************)
(* SpecExp: one call of exp, one action per stage of its pipeline.         *)
(***************************************************************************)
InitExp ==
    /\ self \in Inputs
    /\ pc = "start"
    /\ h = None /\ ret = NoRet
    /\ mag = NoMag /\ ellv = NoEll /\ loc = NoLoc
    /\ s = 0 /\ uv = None /\ x = None /\ sq = 0
    /\ cnt = [pairs |-> 0, solves |-> 0]
    /\ NormIdle

ExpStart ==
    /\ pc = "start"
    /\ IF Len(self) = 1
       THEN /\ x' = Some(map_exp(self))
            /\ pc' = "done"
            /\ h' = h
       ELSE /\ h' = new(self, TRUE)
            /\ pc' = "eta1"
            /\ x' = x
    /\ UNCHANGED <<ret, self, mag, ellv, loc, s, uv, sq, cnt, nm, nres>>

ExpEta1 ==
    /\ pc = "eta1"
    /\ \E l4 \in Levels, l6 \in Levels, o \in 0..MaxEll :
       \E r4 \in {d4_loose(h)} :
       \E r6 \in {d6_loose(r4.h)} :
       \E mg \in {[mag EXCEPT ![4] = level(unwrap(r4.v), l4),
                              ![6] = level(unwrap(r6.v), l6)]} :
       \E eta_1 \in {Max(mg[4], mg[6])} :
       \E e \in {ell(r6.h.a, 3, o)} :
         /\ h' = r6.h
         /\ mag' = mg
         /\ loc' = [loc EXCEPT !.eta_1 = eta_1,
                               !.deg = IF eta_1 < theta_3 /\ e = 0 THEN 3 ELSE 0]
         /\ IF eta_1 < theta_3
            THEN ellv' = [ellv EXCEPT ![3] = e] /\ pc' = IF e = 0 THEN "pade3" ELSE "eta2"
            ELSE ellv' = ellv /\ pc' = "eta2"
    /\ UNCHANGED <<ret, self, s, uv, x, sq, cnt, nm, nres>>

(* The degree 5 branch taken on eta_2 alone, without ell(a, 5) == 0. *)
ExpEta2_without_ell ==
    /\ pc = "eta2"
    /\ \E o \in 0..MaxEll :
       \E r4 \in {d4_tight(h)} :
       \E r6 \in {d6_loose(r4.h)} :
       \E eta_2 \in {Max(level(unwrap(r4.v), mag[4]), level(unwrap(r6.v), mag[6]))} :
       \E e \in {ell(r6.h.a, 5, o)} :
         /\ h' = r6.h
         /\ loc' = [loc EXCEPT !.eta_2 = eta_2,
                               !.deg = IF eta_2 < theta_5 THEN 5 ELSE 0]
         /\ IF eta_2 < theta_5
            THEN ellv' = [ellv EXCEPT ![5] = e] /\ pc' = "pade5"
            ELSE ellv' = ellv /\ pc' = "eta3"
    /\ UNCHANGED <<ret, self, mag, s, uv, x, sq, cnt, nm, nres>>

ExpEta2 ==
    /\ pc = "eta2"
    /\ \E o \in 0..MaxEll :
       \E r4 \in {d4_tight(h)} :
       \E r6 \in {d6_loose(r4.h)} :
       \E eta_2 \in {Max(level(unwrap(r4.v), mag[4]), level(unwrap(r6.v), mag[6]))} :
       \E e \in {ell(r6.h.a, 5, o)} :
         /\ h' = r6.h
         /\ loc' = [loc EXCEPT !.eta_2 = eta_2,
                               !.deg = IF eta_2 < theta_5 /\ e = 0 THEN 5 ELSE 0]
         /\ IF eta_2 < theta_5
            THEN ellv' = [ellv EXCEPT ![5] = e] /\ pc' = IF e = 0 THEN "pade5" ELSE "eta3"
            ELSE ellv' = ellv /\ pc' = "eta3"
    /\ UNCHANGED <<ret, self, mag, s, uv, x, sq, cnt, nm, nres>>

ExpEta3 ==
    /\ pc = "eta3"
    /\ \E l8 \in Levels, o7 \in 0..MaxEll, o9 \in 0..MaxEll :
       \E r6 \in {d6_tight(h)} :
       \E r8 \in {d8_loose(r6.h)} :
       \E mg \in {[mag EXCEPT ![8] = level(unwrap(r8.v), l8)]} :
       \E eta_3 \in {Max(level(unwrap(r6.v), mg[6]), mg[8])} :
       \E e7 \in {ell(r8.h.a, 7, o7)}, e9 \in {ell(r8.h.a, 9, o9)} :
       \E take7 \in {eta_3 < theta_7 /\ e7 = 0} :
       \E take9 \in {~take7 /\ eta_3 < theta_9 /\ e9 = 0} :
         /\ h' = r8.h
         /\ mag' = mg
         /\ loc' = [loc EXCEPT !.eta_3 = eta_3,
                               !.deg = IF take7 THEN 7 ELSE IF take9 THEN 9 ELSE 0]
         /\ ellv' = [ellv EXCEPT
                       ![7] = IF eta_3 < theta_7 THEN e7 ELSE @,
                       ![9] = IF ~take7 /\ eta_3 < theta_9 THEN e9 ELSE @]
         /\ pc' = IF take7 THEN "pade7" ELSE IF take9 THEN "pade9" ELSE "eta4"
    /\ UNCHANGED <<ret, self, s, uv, x, sq, cnt, nm, nres>>

ExpEta4 ==
    /\ pc = "eta4"
    /\ \E l10 \in Levels, o \in 0..MaxEll :
       \E r8 \in {d8_loose(h)} :
       \E r10 \in {d10_loose(r8.h)} :
       \E mg \in {[mag EXCEPT ![10] = level(unwrap(r10.v), l10)]} :
       \E eta_4 \in {Max(level(unwrap(r8.v), mg[8]), mg[10])} :
       \E eta_5 \in {Min(loc.eta_3, eta_4)} :
       \E l2 \in {log2_ceil(eta_5, theta_13)} :
       \E s0 \in {IF eta_5 = 0 THEN 0 ELSE IF l2 < 0 THEN 0 ELSE l2} :
       \E e \in {ell(r10.h.a, 13, o)} :
         /\ h' = r10.h
         /\ mag' = mg
         /\ loc' = [loc EXCEPT !.eta_4 = eta_4, !.eta_5 = eta_5, !.deg = 13]
         /\ ellv' = [ellv EXCEPT ![13] = e]
         /\ s' = s0 + e
         /\ pc' = "pade13"
    /\ UNCHANGED <<ret, self, uv, x, sq, cnt, nm, nres>>

Built(r) ==
    /\ h' = r.h
    /\ uv' = r.v
    /\ cnt' = [cnt EXCEPT !.pairs = @ + 1]
    /\ pc' = IF is_none(r.v) THEN "panic" ELSE "solve"
    /\ UNCHANGED <<ret, self, mag, ellv, loc, s, x, sq, nm, nres>>

ExpPade3 == pc = "pade3" /\ Built(pade3(h))

ExpPade5 == pc = "pade5" /\ Built(pade5(h))

ExpPade7 == pc = "pade7" /\ Built(pade7(h))

ExpPade9 == pc = "pade9" /\ Built(pade9(h))

ExpPade13 == pc = "pade13" /\ Built(pade13_scaled(h, s))

ExpSolve ==
    /\ pc = "solve"
    /\ \E lu_fails \in BOOLEAN :
       \E r \in {solve_p_q(unwrap(uv)[1], unwrap(uv)[2], lu_fails)} :
         /\ x' = r
         /\ loc' = [loc EXCEPT !.lu = IF is_none(r) THEN "singular" ELSE "solved"]
         /\ pc' = IF is_none(r) THEN "panic"
                  ELSE IF loc.deg = 13 THEN "square" ELSE "done"
    /\ cnt' = [cnt EXCEPT !.solves = @ + 1]
    /\ UNCHANGED <<h, ret, self, mag, ellv, s, uv, sq, nm, nres>>

(* The squaring loop over 0..=s instead of 0..s. *)
ExpSquare_inclusive ==
    /\ pc = "square"
    /\ sq <= s
    /\ x' = Some(square(unwrap(x)))
    /\ sq' = sq + 1
    /\ UNCHANGED <<h, ret, pc, self, mag, ellv, loc, s, uv, cnt, nm, nres>>

ExpSquare ==
    /\ pc = "square"
    /\ sq < s
    /\ x' = Some(square(unwrap(x)))
    /\ sq' = sq + 1
    /\ UNCHANGED <<h, ret, pc, self, mag, ellv, loc, s, uv, cnt, nm, nres>>

ExpReturn ==
    /\ pc = "square"
    /\ ~(sq < s)
    /\ pc' = "done"
    /\ UNCHANGED <<h, ret, self, mag, ellv, loc, s, uv, x, sq, cnt, nm, nres>>

NextExp ==
    \/ ExpStart \/ ExpEta1 \/ ExpEta2 \/ ExpEta3 \/ ExpEta4
    \/ ExpPade3 \/ ExpPade5 \/ ExpPade7 \/ ExpPade9 \/ ExpPade13
    \/ ExpSolve \/ ExpSquare \/ ExpReturn

SpecExp == InitExp /\ [][NextExp]_vars

(***************************************************************************)
(* SpecNorm: one call of one_norm on a small square matrix, or on the       *)
(* matrix of the unit test.                                                 *)
(***************************************************************************)
TestMatrix == << <<-3, 5, 7>>, <<2, 6, 4>>, <<0, 2, 8>> >>

NormDims == {1, 2}

NormInputs ==
    UNION {[1..n -> [1..n -> -NormEntry..NormEntry]] : n \in NormDims} \cup {TestMatrix}

InitNorm ==
    /\ nm \in NormInputs
    /\ nres = None
    /\ h = None /\ ret = NoRet
    /\ Idle

Call_one_norm ==
    /\ nres = None
    /\ nres' = Some(one_norm(nm))
    /\ UNCHANGED <<h, ret, pc, self, mag, ellv, loc, s, uv, x, sq, cnt, nm>>

NextNorm == Call_one_norm

SpecNorm == InitNorm /\ [][NextNorm]_vars

(***************************************************************************)
(* Vocabulary of the properties                                            *)
(***************************************************************************)
PowerSlots == {"a2", "a4", "a6", "a8", "a10"}

NormSlots ==
    {"d4_exact", "d6_exact", "d8_exact", "d10_exact",
     "d4_approx", "d6_approx", "d8_approx", "d10_approx"}

Populated(hh) == {f \in PowerSlots : is_some(hh[f])}

Builders == {"pade3", "pade5", "pade7", "pade9", "pade13_scaled"}

Required(op) ==
    CASE op = "pade3" -> {"a2"}
      [] op = "pade5" -> {"a2", "a4"}
      [] op = "pade7" -> {"a2", "a4", "a6"}
      [] op = "pade9" -> {"a2", "a4", "a6", "a8"}
      [] op = "pade13_scaled" -> {"a2", "a4", "a6"}

RECURSIVE Power(_, _)
Power(a, j) == IF j = 0 THEN identity_generic(Len(a)) ELSE MatMul(a, Power(a, j - 1))

Decided == pc \in {"pade3", "pade5", "pade7", "pade9", "pade13", "solve", "square", "done", "panic"}

(* C1: when the LU solve of Q = V - U yields no solution, exp does not end
   in a panic.                                                              *)
C1_SingularIsRecoverable == loc.lu = "singular" => pc # "panic"

(* C2: for an input of dimension >= 2 the degree taken is the first, in the
   order 3, 5, 7, 9, whose condition holds (the norm bound below its
   threshold and ell equal to 0), and 13 when none holds.                   *)
Cond(m, eta, theta) == eta < theta /\ ellv[m] = 0

C2_FirstBranchTaken ==
    (Decided /\ Len(self) >= 2) =>
        LET eta1 == Max(mag[4], mag[6])
            eta2 == Max(mag[4], mag[6])
            eta3 == Max(mag[6], mag[8])
            c3 == Cond(3, eta1, theta_3)
            c5 == Cond(5, eta2, theta_5)
            c7 == Cond(7, eta3, theta_7)
            c9 == Cond(9, eta3, theta_9)
        IN  /\ loc.deg \in {3, 5, 7, 9, 13}
            /\ loc.deg = 3 <=> c3
            /\ loc.deg = 5 <=> ~c3 /\ c5
            /\ loc.deg = 7 <=> ~c3 /\ ~c5 /\ c7
            /\ loc.deg = 9 <=> ~c3 /\ ~c5 /\ ~c7 /\ c9
            /\ loc.deg = 13 <=> ~c3 /\ ~c5 /\ ~c7 /\ ~c9
            /\ mag[4] >= 0 /\ mag[6] >= 0
            /\ loc.deg >= 7 => mag[8] >= 0
            /\ (loc.deg >= 5 /\ eta1 < theta_3) => ellv[3] > 0
            /\ (loc.deg >= 7 /\ eta2 < theta_5) => ellv[5] > 0
            /\ (loc.deg >= 9 /\ eta3 < theta_7) => ellv[7] > 0
            /\ (loc.deg = 13 /\ eta3 < theta_9) => ellv[9] > 0

C2_Witness ==
    /\ pc = "pade9" /\ loc.deg = 9
    /\ Max(mag[6], mag[8]) < theta_7 /\ ellv[7] > 0
    /\ Max(mag[4], mag[6]) < theta_3 /\ ellv[3] > 0 /\ ellv[5] > 0

(* C3: a call of exp builds at most one Pade pair and solves at most once,
   and a call that returns has built exactly one pair and solved exactly
   once (none on the 1x1 fast path); on the degree 13 path the solution has
   been squared exactly s times, s being the scaling given to pade13_scaled
   (the initial s plus ell of the scaled matrix), and on the other paths it
   has not been squared; every step of a call lowers a non-negative
   measure (the stages left plus the squarings left), so the call ends.     *)
InitialS == IF loc.eta_5 <= theta_13 THEN 0 ELSE loc.eta_5 - theta_13

C3_Returned ==
    /\ cnt.pairs <= 1 /\ cnt.solves <= 1 /\ sq <= s
    /\ pc = "done" =>
         IF Len(self) = 1
         THEN cnt.pairs = 0 /\ cnt.solves = 0 /\ unwrap(x).sq = 0
         ELSE /\ cnt.pairs = 1 /\ cnt.solves = 1
              /\ loc.deg = 13 =>
                   /\ unwrap(x).sq = s
                   /\ s = InitialS + ellv[13]
                   /\ \A n \in 1..Len(unwrap(uv)[1]) : unwrap(uv)[1][n].sh = unwrap(uv)[1][n].b * s
                   /\ \A n \in 1..Len(unwrap(uv)[2]) : unwrap(uv)[2][n].sh = unwrap(uv)[2][n].b * s
              /\ loc.deg \in {3, 5, 7, 9} => unwrap(x).sq = 0 /\ s = 0

StagesLeft ==
    CASE pc = "start" -> 8 [] pc = "eta1" -> 7 [] pc = "eta2" -> 6 [] pc = "eta3" -> 5
      [] pc = "eta4" -> 4
      [] pc \in {"pade3", "pade5", "pade7", "pade9", "pade13"} -> 3
      [] pc = "solve" -> 2 [] pc = "square" -> 1 [] OTHER -> 0

Measure == StagesLeft * (MaxLevel + MaxEll + 1) + (s - sq)

C3_SinglePass ==
    /\ []C3_Returned
    /\ [][Measure' < Measure /\ Measure' >= 0]_vars

C3_Witness ==
    /\ pc = "done" /\ loc.deg = 13 /\ s = 2 /\ ellv[13] = 1
    /\ unwrap(x).sq = 2

(* C4: for the zero matrix exp returns the identity: in dimension >= 2
   every norm quantity is 0 and ell(A, 3) is 0, the degree 3 branch is
   taken with U = 0 and V = 120 * I, and the solution is I; in dimension 1
   the fast path returns [[1]].                                             *)
C4_ZeroGivesIdentity ==
    self = Zero(Len(self)) =>
        /\ pc # "panic"
        /\ pc \notin {"eta2", "eta3", "eta4", "pade5", "pade7", "pade9", "pade13", "square"}
        /\ pc = "done" =>
             x = Some([known |-> TRUE, m |-> identity_generic(Len(self)), sq |-> 0])
        /\ (Decided /\ Len(self) >= 2) =>
             /\ loc.deg = 3 /\ mag[4] = 0 /\ mag[6] = 0 /\ ellv[3] = 0
        /\ (pc \in {"solve", "done"} /\ Len(self) >= 2) =>
             /\ NonZero(unwrap(uv)[1]) = <<>>
             /\ NonZero(unwrap(uv)[2]) =
                   << [t |-> 3, b |-> 0, c |-> <<0, 120>>, sh |-> 0,
                       m |-> identity_generic(Len(self))] >>

C4_Witness ==
    /\ self = Zero(2) /\ pc = "done" /\ loc.lu = "solved"
    /\ x = Some([known |-> TRUE, m |-> identity_generic(2), sq |-> 0])

(* C5: one_norm(M) is the largest, over the columns of M, of the sum of the
   absolute values of the column's entries; it is 19 for the matrix of the
   unit test.                                                               *)
RECURSIVE SumOver(_, _)
SumOver(f, S) ==
    IF S = {} THEN 0
    ELSE LET e == CHOOSE e \in S : TRUE IN f[e] + SumOver(f, S \ {e})

ColumnSums(m) ==
    {SumOver([i \in 1..Len(m) |-> Abs(m[i][j])], 1..Len(m)) : j \in 1..Len(m)}

C5_MaxColumnSum ==
    is_some(nres) =>
        /\ unwrap(nres) \in ColumnSums(nm)
        /\ \A c \in ColumnSums(nm) : c <= unwrap(nres)
        /\ nm = TestMatrix => unwrap(nres) = 19
        /\ nm = Zero(Len(nm)) => unwrap(nres) = 0

C5_Witness == nm = TestMatrix /\ nres = Some(19)

(* C6: a populated cache slot is never emptied and never changes value (so
   each slot goes from empty to populated at most once), and the stored
   matrix and the identity are never modified, whatever helper operation
   runs.                                                                    *)
C6_SlotsWriteOnce ==
    [][ /\ h'.a = h.a
        /\ h'.ident = h.ident
        /\ h'.use_exact_norm = h.use_exact_norm
        /\ \A f \in PowerSlots \cup NormSlots : is_some(h[f]) => h'[f] = h[f] ]_vars

C6_Witness ==
    /\ \A f \in PowerSlots \cup NormSlots : is_some(h[f])
    /\ ret.op = "d4_tight"

(* C7: the populated power slots are closed under the dependency chain, each
   populated power is the product of the two lower powers it is built from,
   and no operation has unwrapped an empty slot.                            *)
C7_ChainClosed ==
    /\ ~h.panicked
    /\ is_some(h.a4) => is_some(h.a2) /\ unwrap(h.a4) = MatMul(unwrap(h.a2), unwrap(h.a2))
    /\ is_some(h.a6) => /\ is_some(h.a2) /\ is_some(h.a4)
                        /\ unwrap(h.a6) = MatMul(unwrap(h.a4), unwrap(h.a2))
    /\ is_some(h.a8) => /\ is_some(h.a2) /\ is_some(h.a6)
                        /\ unwrap(h.a8) = MatMul(unwrap(h.a6), unwrap(h.a2))
    /\ is_some(h.a10) => /\ is_some(h.a4) /\ is_some(h.a6)
                         /\ unwrap(h.a10) = MatMul(unwrap(h.a6), unwrap(h.a4))
    /\ \A f \in PowerSlots : is_some(h[f]) => Len(unwrap(h[f])) = Len(h.a)

C7_Witness ==
    /\ ret.op = "pade5" /\ is_some(ret.v)
    /\ Populated(h) = {"a2", "a4", "a6"}
    /\ unwrap(h.a4) # unwrap(h.a2)

(* C8: a Pade builder called on a helper with no power cached populates
   exactly the powers required for its degree, and no builder changes a
   power slot outside that set.                                             *)
C8_BuilderFootprint ==
    [][ ret'.op \in Builders =>
          /\ Populated(h) = {} => Populated(h') = Required(ret'.op)
          /\ \A f \in PowerSlots \ Required(ret'.op) : h'[f] = h[f] ]_vars

(* C9: in every state, for either value of use_exact_norm, d{k}_loose
   returns what d{k}_tight returns, namely one_norm(A^k)^(1/k); with
   use_exact_norm set, d{k}_loose leaves the approximate slots empty.       *)
C9_LooseEqualsTight ==
    LET l4 == d4_loose(h)   t4 == d4_tight(h)
        l6 == d6_loose(h)   t6 == d6_tight(h)
        l8 == d8_loose(h)   t8 == d8_tight(h)
        l10 == d10_loose(h) t10 == d10_tight(h)
        p2 == MatMul(h.a, h.a)
        p4 == MatMul(h.a, MatMul(h.a, p2))
        p6 == MatMul(h.a, MatMul(h.a, p4))
        p8 == MatMul(h.a, MatMul(h.a, p6))
        p10 == MatMul(h.a, MatMul(h.a, p8))
        approx == {"d4_approx", "d6_approx", "d8_approx", "d10_approx"}
    IN  /\ l4.v = t4.v /\ l6.v = t6.v /\ l8.v = t8.v /\ l10.v = t10.v
        /\ l4.v = Some(powf(one_norm(p4), 4))
        /\ l6.v = Some(powf(one_norm(p6), 6))
        /\ l8.v = Some(powf(one_norm(p8), 8))
        /\ l10.v = Some(powf(one_norm(p10), 10))
        /\ h.use_exact_norm =>
             \A f \in approx :
                /\ is_none(h[f])
                /\ is_none(l4.h[f]) /\ is_none(l6.h[f])
                /\ is_none(l8.h[f]) /\ is_none(l10.h[f])

C9_Witness ==
    /\ ~h.use_exact_norm
    /\ ret.op = "d6_loose"
    /\ is_some(h.d6_approx) /\ is_some(h.d6_exact)
    /\ is_some(h.d8_approx) /\ is_none(h.d8_exact)
    /\ unwrap(ret.v).n > 1

(* C10: every builder returns the odd/even split of its table: U has one
   term b[j]*M^j for each odd j <= 2k+1 and nothing else, V one term
   b[j]*M^j for each even j <= 2k and nothing else, with M = A*2^(-s)
   (s = 0 for the unscaled builders).                                       *)
RECURSIVE Powers(_, _)
Powers(a, j) ==
    IF j = 0 THEN <<identity_generic(Len(a))>>
    ELSE LET prev == Powers(a, j - 1) IN Append(prev, MatMul(a, prev[j]))

IsSplit(lin, parity, k, t, tab, pows, sc) ==
    /\ Len(lin) = k + 1
    /\ \A i \in 0..k :
         LET j == 2 * i + parity
             hits == {n \in 1..Len(lin) : lin[n].b = j}
         IN  /\ Cardinality(hits) = 1
             /\ \A n \in hits :
                  lin[n] = [t |-> t, b |-> j, c |-> tab[j + 1],
                            sh |-> j * sc, m |-> pows[j + 1]]

TableOf(op) ==
    CASE op = "pade3" -> b3 [] op = "pade5" -> b5 [] op = "pade7" -> b7
      [] op = "pade9" -> b9 [] op = "pade13_scaled" -> b13

C10_OddEvenSplit ==
    (ret.op \in Builders /\ is_some(ret.v)) =>
        LET tab  == TableOf(ret.op)
            k    == (Len(tab) \div 2) - 1
            t    == 2 * k + 1
            u    == unwrap(ret.v)[1]
            v    == unwrap(ret.v)[2]
            pows == Powers(h.a, t)
        IN  /\ IsSplit(u, 1, k, t, tab, pows, ret.arg)
            /\ IsSplit(v, 0, k, t, tab, pows, ret.arg)

C10_Witness ==
    /\ ret.op = "pade13_scaled" /\ ret.arg = 1 /\ is_some(ret.v)
    /\ Power(h.a, 13) # Power(h.a, 11)
    /\ Len(h.a) = 2

=============================================================================
